---- MODULE Spec2Model ----
(***************************************************************************)
(* A model of the DEFLATE decoder of miniz-rs (src/src/inflate.rs): the    *)
(* LSB-first bit reader, the canonical code generator, the two-level       *)
(* lookup table, the block driver and the back-reference engine.           *)
(*                                                                         *)
(* Byte slices are sequences of 0..255, indexed from 0 through at(_, _).   *)
(* A Rust panic (slice index out of range, arithmetic overflow in a build  *)
(* with overflow checks) is the result "Panic".  Whether the build checks  *)
(* arithmetic overflow (cargo's dev and test profiles do, its release      *)
(* profile wraps) is the variable overflow_checks, chosen in Init.         *)
(***************************************************************************)
EXTENDS Integers, Sequences, FiniteSets, TLC

VARIABLES
    overflow_checks,  \* the build: TRUE panics on integer overflow, FALSE wraps
    src,              \* inflate's src: the input bytes
    dst,              \* inflate's dst: the output region, Len(dst) its capacity
    sptr,             \* bit position in src
    dptr,             \* output offset in dst
    pc,               \* where the call stands
    b_final,          \* inflate: the current block's final bit
    b_type,           \* inflate: the current block's type
    trees,            \* inflate_huffman_block: (literal/length table, distance table)
    luts,             \* read_encoded_luts: its locals (ll_len, dt_len, vlc_cl, bitlen, ptr)
    fixed_luts,       \* the build: what generate_fixed_luts() returns
    op,               \* inflate_huffman_block / inflate_no_compression: the locals of the last step
    result,           \* what the call returned: "Ok", an Error name, "Panic"; "" while running
    bp,               \* show_bits: argument bp
    count,            \* show_bits: argument count
    bits,             \* show_bits / read_bits: the returned Result
    inp,              \* make_lookup_table: the code-length vector
    lut,              \* make_lookup_table: the returned Result
    sym,              \* read_symbol: the returned Result and the new bit position
    word,             \* reverse_bits: argument x
    rev,              \* reverse_bits: the returned value
    codes,            \* generate_codes: the code field of every entry after the call
    given,            \* what the input was built from (the encoder's data, appended bytes)
    filtered,         \* unfilter_scanline_0 / _n: the bytes of recon before the call
    recon,            \* unfilter_scanline_0 / _n: the line, unfiltered in place
    precon,           \* unfilter_scanline_n: the previous line, already unfiltered
    filter_type,      \* unfilter_scanline_0 / _n: the PNGFilterType of the line
    cx,               \* unfilter_scanline_0 / _n: the number of bytes in the line
    N                 \* unfilter_scanline_0 / _n: the const parameter N, bytes per pixel

vars == <<overflow_checks, src, dst, sptr, dptr, pc, b_final, b_type, trees, luts,
          fixed_luts, op, result, bp, count, bits, inp, lut, sym, word, rev, codes, given,
                   filtered, recon, precon, filter_type, cx, N>>

----------------------------------------------------------------------------
(* Machine arithmetic                                                      *)

Pow2(n) == 2 ^ n

\* x >> n
Shr(x, n) == x \div Pow2(n)

\* x << n on a w-bit unsigned integer: the bits shifted out are lost
Shl(x, n, w) == (x * Pow2(n)) % Pow2(w)

RECURSIVE BitAnd(_, _)
\* x & y
BitAnd(x, y) ==
    IF x = 0 \/ y = 0 THEN 0
    ELSE (x % 2) * (y % 2) + 2 * BitAnd(x \div 2, y \div 2)

RECURSIVE BitOr(_, _)
\* x | y
BitOr(x, y) ==
    IF x = 0 THEN y
    ELSE IF y = 0 THEN x
    ELSE (IF x % 2 = 1 \/ y % 2 = 1 THEN 1 ELSE 0) + 2 * BitOr(x \div 2, y \div 2)

Max(a, b) == IF a >= b THEN a ELSE b
Min(a, b) == IF a <= b THEN a ELSE b

\* s[i] of a Rust slice, i counted from 0
at(s, i) == s[i + 1]

\* Result<u16, Error>
Ok(v) == [err |-> "", val |-> v]
Err(e) == [err |-> e, val |-> 0]

----------------------------------------------------------------------------
(* Bit reader                                                              *)

show_bits(p, s, n) ==
    LET bytepos == Shr(p, 3)
        shift == p % 8
        mask == Pow2(n) - 1
    IN  IF bytepos + 2 < Len(s)
        THEN LET bits32 == BitOr(BitOr(at(s, bytepos + 2) * Pow2(16),
                                       at(s, bytepos + 1) * Pow2(8)),
                                 at(s, bytepos))
             IN  Ok(BitAnd(Shr(bits32, shift) % Pow2(16), mask))
        ELSE IF bytepos + 1 < Len(s)
        THEN LET bits16 == BitOr(at(s, bytepos + 1) * Pow2(8), at(s, bytepos))
             IN  Ok(BitAnd(Shr(bits16, shift), mask))
        ELSE IF bytepos + 1 = Len(s)
        THEN LET bits8 == at(s, bytepos)
             IN  Ok(BitAnd(Shr(bits8, shift), mask))
        ELSE Err("Underflow")

\* read_bits: the Result and the bit position after the call
read_bits(s, p, n) ==
    LET res == show_bits(p, s, n)
    IN  IF res.err # "" THEN [err |-> res.err, val |-> 0, sptr |-> p]
        ELSE [err |-> "", val |-> res.val, sptr |-> p + n]

----------------------------------------------------------------------------
(* Code-length resolver                                                    *)

FIRSTBITS == 9
INVALIDSYMBOL == 32767
MAX_CODE_LENGTH == 16
HEADSIZE == Pow2(FIRSTBITS)
MASK == Pow2(FIRSTBITS) - 1
TABLESIZE == 1024
UNUSED == 16

\* reverse_bits without its second line: the pairs of bits are not exchanged
reverse_bits_unpaired(x, n) ==
    LET swap(y, mask, k) == BitOr(Shl(BitAnd(y, mask), k, 16), BitAnd(Shr(y, k), mask))
    IN  Shr(swap(swap(swap(x, 21845, 1), 3855, 4), 255, 8), 16 - n)

reverse_bits(x, n) ==
    LET swap(y, mask, k) == BitOr(Shl(BitAnd(y, mask), k, 16), BitAnd(Shr(y, k), mask))
    IN  Shr(swap(swap(swap(swap(x, 21845, 1), 13107, 2), 3855, 4), 255, 8), 16 - n)

\* generate_codes, first loop: the number of symbols of each code length
code_len_count(lens) ==
    [l \in 0..(MAX_CODE_LENGTH - 1) |-> Cardinality({k \in DOMAIN lens : lens[k] = l})]

RECURSIVE next_code_from(_, _, _)
\* generate_codes, second loop, from index i on: nc holds next_code[0..i-1] (at
\* nc[1..i]).  The u16 addition overflows at 65536; the shift drops bits silently.
next_code_from(cnt, nc, i) ==
    IF i = MAX_CODE_LENGTH THEN [overflow |-> FALSE, next_code |-> nc]
    ELSE LET sum == nc[i] + cnt[i - 1]
             rest == next_code_from(cnt, Append(nc, Shl(sum % Pow2(16), 1, 16)), i + 1)
         IN  IF sum >= Pow2(16) THEN [rest EXCEPT !.overflow = TRUE] ELSE rest

\* generate_codes, third loop, the body for symbol i (counted from 1 here): st holds
\* next_code (next_code[l] at st.next_code[l + 1]) and the codes assigned so far
assign_code(lens, st, i) ==
    IF lens[i] = 0 THEN [st EXCEPT !.code = Append(@, 0)]
    ELSE LET l == lens[i]
             nc == st.next_code[l + 1]
         IN  [overflow |-> st.overflow \/ nc + 1 >= Pow2(16),
              next_code |-> [st.next_code EXCEPT ![l + 1] = (nc + 1) % Pow2(16)],
              code |-> Append(st.code, reverse_bits(nc, l))]

RECURSIVE assign_codes(_, _, _, _)
\* generate_codes, third loop, over the symbols lo..hi in order: st holds the codes
\* of the lo - 1 symbols before them (the range is halved only to keep the
\* evaluation shallow)
assign_codes(lens, st, lo, hi) ==
    IF Len(st.code) # lo - 1 \/ lo > hi THEN st
    ELSE IF lo = hi THEN assign_code(lens, st, lo)
    ELSE LET mid == (lo + hi) \div 2
         IN  assign_codes(lens, assign_codes(lens, st, lo, mid), mid + 1, hi)

\* generate_codes: the code of every symbol ([code, len] of VarLenCode are kept in
\* two parallel sequences), and whether a u16 addition overflowed on the way
generate_codes(lens) ==
    LET assigned(nc, ac) == [overflow |-> nc.overflow \/ ac.overflow, code |-> ac.code]
        counted(nc) ==
            assigned(nc, assign_codes(lens, [overflow |-> FALSE, next_code |-> nc.next_code,
                                             code |-> <<>>], 1, Len(lens)))
    IN  counted(next_code_from(code_len_count(lens), <<0>>, 1))

----------------------------------------------------------------------------
(* Two-level lookup table                                                  *)

\* A LookupTable: 1024 VarLenCode entries, entry k at at(table, k)
VarLenCode(c, l) == [code |-> c, len |-> l]

unused_table == [k \in 1..TABLESIZE |-> VarLenCode(0, UNUSED)]

\* make_lookup_table: maxlens[index], the longest code among the symbols longer
\* than FIRSTBITS whose first FIRSTBITS bits are index (0 when there is none)
maxlens_of(lens, code) ==
    LET long == {k \in DOMAIN lens : lens[k] > FIRSTBITS}
    IN  [index \in 0..(HEADSIZE - 1) |->
            LET here == {lens[k] : k \in {k \in long : BitAnd(code[k], MASK) = index}}
            IN  IF here = {} THEN 0 ELSE CHOOSE l \in here : \A m \in here : m <= l]

RECURSIVE secondary_size_widest(_, _, _)
\* secondary_size with every secondary table as large as that of a 15-bit code,
\* whatever the longest code of its prefix
secondary_size_widest(maxlens, lo, hi) ==
    IF lo > hi THEN 0
    ELSE IF lo = hi
    THEN IF maxlens[lo] > FIRSTBITS THEN Pow2(MAX_CODE_LENGTH - 1 - FIRSTBITS) ELSE 0
    ELSE LET mid == (lo + hi) \div 2
         IN  secondary_size_widest(maxlens, lo, mid) + secondary_size_widest(maxlens, mid + 1, hi)

RECURSIVE secondary_size(_, _, _)
\* the entries of the secondary tables of the primary indices lo..hi (the range is
\* halved only to keep the evaluation shallow)
secondary_size(maxlens, lo, hi) ==
    IF lo > hi THEN 0
    ELSE IF lo = hi
    THEN IF maxlens[lo] > FIRSTBITS THEN Pow2(maxlens[lo] - FIRSTBITS) ELSE 0
    ELSE LET mid == (lo + hi) \div 2
         IN  secondary_size(maxlens, lo, mid) + secondary_size(maxlens, mid + 1, hi)

\* make_lookup_table: the first table's entries for long symbols, each with the
\* longest code of its prefix and the pointer to its secondary table
with_pointers(maxlens) ==
    LET longidx == {i \in 0..(HEADSIZE - 1) : maxlens[i] > FIRSTBITS}
    IN  IF longidx = {} THEN unused_table
        ELSE [k \in 1..TABLESIZE |->
                IF (k - 1) \in longidx
                THEN VarLenCode((HEADSIZE + secondary_size(maxlens, 0, k - 2)) % Pow2(16),
                                maxlens[k - 1])
                ELSE VarLenCode(0, UNUSED)]

RECURSIVE stamp_short_overwriting(_, _, _, _, _, _)
\* stamp_short without its test `table[index].len != 16`: a symbol overwrites the
\* entries of an earlier one instead of ending the loop with OverSubscribedTree
stamp_short_overwriting(r, i, c, l, lo, hi) ==
    IF r.err # "" \/ lo > hi THEN r
    ELSE IF lo = hi
    THEN [r EXCEPT !.table[BitOr(c, Shl(lo, l, 16)) + 1] = VarLenCode(i, l)]
    ELSE LET mid == (lo + hi) \div 2
         IN  stamp_short_overwriting(stamp_short_overwriting(r, i, c, l, lo, mid),
                                     i, c, l, mid + 1, hi)

RECURSIVE stamp_short(_, _, _, _, _, _)
\* the loop over j in lo..hi, in order, for a short symbol i (code c, length l);
\* r is [err, table] so far, and an error ends the loop (the range is halved only
\* to keep the evaluation shallow)
stamp_short(r, i, c, l, lo, hi) ==
    IF r.err # "" \/ lo > hi THEN r
    ELSE IF lo = hi
    THEN LET index == BitOr(c, Shl(lo, l, 16))
         IN  IF at(r.table, index).len # UNUSED
             THEN [r EXCEPT !.err = "OverSubscribedTree"]
             ELSE [r EXCEPT !.table[index + 1] = VarLenCode(i, l)]
    ELSE LET mid == (lo + hi) \div 2
         IN  stamp_short(stamp_short(r, i, c, l, lo, mid), i, c, l, mid + 1, hi)

RECURSIVE stamp_long(_, _, _, _, _, _, _)
\* the loop over j in lo..hi, in order, for a long symbol i (code c, length l)
\* whose secondary table begins at start; a write past the table's end panics
stamp_long(r, i, c, l, start, lo, hi) ==
    IF r.err # "" \/ lo > hi THEN r
    ELSE IF lo = hi
    THEN LET reverse2 == Shr(c, FIRSTBITS)
             index2 == start + BitOr(reverse2, Shl(lo, l - FIRSTBITS, 16))
         IN  IF index2 >= TABLESIZE
             THEN [r EXCEPT !.err = "Panic"]
             ELSE [r EXCEPT !.table[index2 + 1] = VarLenCode(i, l)]
    ELSE LET mid == (lo + hi) \div 2
         IN  stamp_long(stamp_long(r, i, c, l, start, lo, mid), i, c, l, start, mid + 1, hi)

\* make_lookup_table, the body of the loop over the symbols for symbol i
\* (counted from 0), which has a nonzero length l
stamp_symbol(r, i, c, l, checks) ==
    IF l <= FIRSTBITS
    THEN stamp_short(r, i, c, l, 0, Pow2(FIRSTBITS - l) - 1)
    ELSE LET index == BitAnd(c, MASK)
             maxlen == at(r.table, index).len
             tablelen == maxlen - FIRSTBITS
             start == at(r.table, index).code
         IN  IF maxlen < l
             \* tablelen - (l - FIRSTBITS) underflows u8 before maxlen < l is tested
             THEN [r EXCEPT !.err = IF checks THEN "Panic" ELSE "OverSubscribedTree"]
             ELSE stamp_long(r, i, c, l, start, 0, Pow2(tablelen - (l - FIRSTBITS)) - 1)

RECURSIVE stamp_symbols(_, _, _, _, _, _)
\* make_lookup_table, the loop over the symbols lo..hi (counted from 0), in order;
\* r is [err, table] so far, and an error ends the loop
stamp_symbols(r, lens, code, lo, hi, checks) ==
    IF r.err # "" \/ lo > hi THEN r
    ELSE IF lo = hi
    THEN IF at(lens, lo) = 0 THEN r
         ELSE stamp_symbol(r, lo, at(code, lo), at(lens, lo), checks)
    ELSE LET mid == (lo + hi) \div 2
         IN  stamp_symbols(stamp_symbols(r, lens, code, lo, mid, checks),
                           lens, code, mid + 1, hi, checks)

\* fill_invalid left out: the unused entries of the first table stay unused
fill_invalid_skipped(table) == table

\* make_lookup_table: the last step for fewer than two symbols
fill_invalid(table) ==
    [k \in 1..TABLESIZE |->
        IF k <= HEADSIZE /\ table[k].len = UNUSED
        THEN VarLenCode(INVALIDSYMBOL, 1)
        ELSE table[k]]

\* make_lookup_table: [err, table], err "" for Ok(table)
make_lookup_table(lens, checks) ==
    LET numpresent == Cardinality({k \in DOMAIN lens : lens[k] # 0})
        checked(gc, st, size) ==
            IF gc.overflow /\ checks THEN [err |-> "Panic", table |-> unused_table]
            ELSE IF st.err # "" THEN [err |-> st.err, table |-> unused_table]
            ELSE IF numpresent < 2 THEN [err |-> "", table |-> fill_invalid(st.table)]
            ELSE IF \E k \in 1..Min(size, TABLESIZE) : st.table[k].len = UNUSED
            THEN [err |-> "UnderSubscribedTree", table |-> unused_table]
            ELSE [err |-> "", table |-> st.table]
        stamped(gc, maxlens) ==
            checked(gc,
                    stamp_symbols([err |-> "", table |-> with_pointers(maxlens)],
                                  lens, gc.code, 0, Len(lens) - 1, checks),
                    HEADSIZE + secondary_size(maxlens, 0, HEADSIZE - 1))
        coded(gc) == stamped(gc, maxlens_of(lens, gc.code))
    IN  coded(generate_codes(lens))

----------------------------------------------------------------------------
(* Symbol decoding                                                         *)

\* read_symbol advancing by the length of the primary entry, the longest code of
\* the prefix, instead of the length of the secondary entry it returns
read_symbol_by_prefix(s, p, table) ==
    LET second(code0, more) ==
            IF more.err # "" THEN [err |-> more.err, val |-> 0, sptr |-> p + FIRSTBITS]
            ELSE IF code0.code + more.val >= TABLESIZE
            THEN [err |-> "Panic", val |-> 0, sptr |-> p + FIRSTBITS]
            ELSE [err |-> "", val |-> at(table, code0.code + more.val).code,
                  sptr |-> p + code0.len]
        first(code0) ==
            IF code0.len <= FIRSTBITS
            THEN [err |-> "", val |-> code0.code, sptr |-> p + code0.len]
            ELSE second(code0, show_bits(p + FIRSTBITS, s, code0.len - FIRSTBITS))
        peeked(bits9) ==
            IF bits9.err # "" THEN [err |-> bits9.err, val |-> 0, sptr |-> p]
            ELSE first(at(table, bits9.val))
    IN  peeked(show_bits(p, s, 9))

\* read_symbol: the Result and the bit position after the call
read_symbol(s, p, table) ==
    LET second(code0, more) ==
            IF more.err # "" THEN [err |-> more.err, val |-> 0, sptr |-> p + FIRSTBITS]
            ELSE IF code0.code + more.val >= TABLESIZE
            THEN [err |-> "Panic", val |-> 0, sptr |-> p + FIRSTBITS]
            ELSE [err |-> "", val |-> at(table, code0.code + more.val).code,
                  sptr |-> p + FIRSTBITS + at(table, code0.code + more.val).len - FIRSTBITS]
        first(code0) ==
            IF code0.len <= FIRSTBITS
            THEN [err |-> "", val |-> code0.code, sptr |-> p + code0.len]
            ELSE second(code0, show_bits(p + FIRSTBITS, s, code0.len - FIRSTBITS))
        peeked(bits9) ==
            IF bits9.err # "" THEN [err |-> bits9.err, val |-> 0, sptr |-> p]
            ELSE first(at(table, bits9.val))
    IN  peeked(show_bits(p, s, 9))

----------------------------------------------------------------------------
(* Block driver.  A call of inflate is a record m of its arguments and locals:  *)
(* src, dst, sptr, dptr, b_final, b_type, trees, luts (the locals of            *)
(* read_encoded_luts), op (the locals of the last block step), pc and result.   *)

\* an Err(e) or a panic propagating out of inflate
Fail(m, e) == [m EXCEPT !.pc = "done", !.result = e]

\* end_of_block without its test of b_final: every block is taken for the last
end_of_block_last(m) == [m EXCEPT !.pc = "done", !.result = "Ok"]

\* inflate: after a block, `if b_final != 0 { break }` and Ok(dptr)
end_of_block(m) ==
    IF m.b_final # 0 THEN [m EXCEPT !.pc = "done", !.result = "Ok"]
    ELSE [m EXCEPT !.pc = "loop"]

\* inflate: the two reads at the head of the loop
block_header(m) ==
    LET typed(f, t) ==
            IF t.err # "" THEN Fail([m EXCEPT !.sptr = f.sptr], t.err)
            ELSE [m EXCEPT !.sptr = t.sptr, !.b_final = f.val, !.b_type = t.val,
                           !.pc = "block"]
        flagged(f) == IF f.err # "" THEN Fail(m, f.err) ELSE typed(f, read_bits(m.src, f.sptr, 2))
    IN  flagged(read_bits(m.src, m.sptr, 1))

\* dst with the bytes of data written from offset start on
write_at(d, start, data) ==
    [k \in 1..Len(d) |->
        IF k - 1 >= start /\ k - 1 < start + Len(data) THEN data[k - start] ELSE d[k]]

NoOp == [kind |-> "none", code |-> 0, start |-> 0, length |-> 0, code_d |-> 0, distance |-> 0]

inflate_no_compression(m) ==
    LET aligned == ((m.sptr + 7) \div 8) * 8
        bytepos == Shr(aligned, 3)
        len == at(m.src, bytepos) + at(m.src, bytepos + 1) * Pow2(8)
        nlen == at(m.src, bytepos + 2) + at(m.src, bytepos + 3) * Pow2(8)
        m1 == [m EXCEPT !.sptr = aligned]
        stored == [NoOp EXCEPT !.kind = "stored", !.start = m.dptr, !.length = len]
    IN  IF bytepos + 4 > Len(m.src) THEN Fail(m1, "Underflow")
        ELSE IF len + nlen # 65535 THEN Fail(m1, "InvalidBlockLength")
        ELSE IF bytepos + 4 + len > Len(m.src) THEN Fail(m1, "Underflow")
        \* dst[*dptr..*dptr + len] panics when the range ends past dst
        ELSE IF m.dptr + len > Len(m.dst) THEN Fail([m1 EXCEPT !.op = stored], "Panic")
        ELSE end_of_block([m1 EXCEPT
                 !.dst = write_at(m.dst, m.dptr, SubSeq(m.src, bytepos + 5, bytepos + 4 + len)),
                 !.dptr = m.dptr + len,
                 !.sptr = aligned + (4 + len) * 8,
                 !.op = stored])

NUM_DEFLATE_CODE_SYMBOLS == 288
NUM_DISTANCE_SYMBOLS == 32
NUM_CODE_LENGTH_CODES == 19

fixed_ll_lengths ==
    [k \in 1..NUM_DEFLATE_CODE_SYMBOLS |->
        IF k - 1 < 144 THEN 8 ELSE IF k - 1 < 256 THEN 9 ELSE IF k - 1 < 280 THEN 7 ELSE 8]

fixed_d_lengths == [k \in 1..NUM_DISTANCE_SYMBOLS |-> 5]

\* the ? of two make_lookup_table calls in a row: [err, trees]
two_luts(ll, d, checks) ==
    LET both(lut_ll, lut_d) ==
            IF lut_ll.err # "" THEN [err |-> lut_ll.err, trees |-> <<>>]
            ELSE IF lut_d.err # "" THEN [err |-> lut_d.err, trees |-> <<>>]
            ELSE [err |-> "", trees |-> <<lut_ll.table, lut_d.table>>]
    IN  both(make_lookup_table(ll, checks), make_lookup_table(d, checks))

generate_fixed_luts(checks) == two_luts(fixed_ll_lengths, fixed_d_lengths, checks)

\* inflate, b_type 1: the tables of a fixed block.  generate_fixed_luts takes no
\* argument, so what it returns is a value of the build: fixed is that value
fixed_block(m, fixed) ==
    IF fixed.err # "" THEN Fail(m, fixed.err)
    ELSE [m EXCEPT !.trees = fixed.trees, !.pc = "huffman"]

----------------------------------------------------------------------------
(* Dynamic tables: read_encoded_luts, one action for its head and one per       *)
(* iteration of its loop over the code lengths.                                 *)

CODE_LEN_PERM == <<16, 17, 18, 0, 8, 7, 9, 6, 10, 5, 11, 4, 12, 3, 13, 2, 14, 1, 15>>

RECURSIVE read_cl_lengths(_, _, _, _)
\* the loop over CODE_LEN_PERM[..cl_len] from its k-th element on: r is
\* [err, sptr, lens] so far, lens the 19 lengths of table_cl
read_cl_lengths(s, r, k, cl_len) ==
    IF r.err # "" \/ k > cl_len THEN r
    ELSE LET b == read_bits(s, r.sptr, 3)
         IN  IF b.err # "" THEN [r EXCEPT !.err = b.err]
             ELSE read_cl_lengths(s, [r EXCEPT !.sptr = b.sptr,
                                                !.lens[CODE_LEN_PERM[k] + 1] = b.val],
                                  k + 1, cl_len)

\* read_encoded_luts up to its loop: the three counts, the code lengths of the
\* code-length alphabet and its table
encoded_luts_head(m, checks) ==
    LET tabled(ll_len, dt_len, cl, vlc_cl) ==
            IF vlc_cl.err # "" THEN Fail([m EXCEPT !.sptr = cl.sptr], vlc_cl.err)
            ELSE [m EXCEPT !.sptr = cl.sptr, !.pc = "lengths",
                           !.luts = [ll_len |-> ll_len, dt_len |-> dt_len,
                                     vlc_cl |-> vlc_cl.table,
                                     bitlen |-> [k \in 1..(NUM_DEFLATE_CODE_SYMBOLS
                                                           + NUM_DISTANCE_SYMBOLS) |-> 0],
                                     ptr |-> 0]]
        lengths(ll_len, dt_len, cl) ==
            IF cl.err # "" THEN Fail([m EXCEPT !.sptr = cl.sptr], cl.err)
            ELSE tabled(ll_len, dt_len, cl, make_lookup_table(cl.lens, checks))
        counts(hlit, hdist, hclen) ==
            IF hclen.err # "" THEN Fail([m EXCEPT !.sptr = hdist.sptr], hclen.err)
            ELSE IF hlit.val + 257 > 286 \/ hdist.val + 1 > 30
            THEN Fail([m EXCEPT !.sptr = hclen.sptr], "InvalidCodeLength")
            ELSE lengths(hlit.val + 257, hdist.val + 1,
                         read_cl_lengths(m.src,
                                         [err |-> "", sptr |-> hclen.sptr,
                                          lens |-> [k \in 1..NUM_CODE_LENGTH_CODES |-> 0]],
                                         1, hclen.val + 4))
        second(hlit, hdist) ==
            IF hdist.err # "" THEN Fail([m EXCEPT !.sptr = hlit.sptr], hdist.err)
            ELSE counts(hlit, hdist, read_bits(m.src, hdist.sptr, 4))
        first(hlit) ==
            IF hlit.err # "" THEN Fail(m, hlit.err)
            ELSE second(hlit, read_bits(m.src, hlit.sptr, 5))
    IN  first(read_bits(m.src, m.sptr, 5))

\* bitlen[from..from + n].fill(value)
fill(s, from, n, value) ==
    [k \in 1..Len(s) |-> IF k - 1 >= from /\ k - 1 < from + n THEN value ELSE s[k]]

\* read_encoded_luts after its loop: the end marker's length and the two tables
encoded_luts_tail(m, checks) ==
    LET l == m.luts
        tabled(r) ==
            IF r.err # "" THEN Fail(m, r.err)
            ELSE [m EXCEPT !.trees = r.trees, !.pc = "huffman"]
    IN  IF at(l.bitlen, 256) = 0 THEN Fail(m, "InvalidData")
        ELSE tabled(two_luts(SubSeq(l.bitlen, 1, l.ll_len),
                             SubSeq(l.bitlen, l.ll_len + 1, l.ll_len + l.dt_len), checks))

\* the loop of read_encoded_luts: `while ptr < count` with the bitlen and ptr of
\* m.luts stored, and what follows the loop once ptr has reached count
next_length(m, bitlen, ptr, sp, o, checks) ==
    LET m1 == [m EXCEPT !.sptr = sp, !.luts.bitlen = bitlen, !.luts.ptr = ptr, !.op = o]
    IN  IF ptr < m.luts.ll_len + m.luts.dt_len THEN m1 ELSE encoded_luts_tail(m1, checks)

\* the check of a run of len code lengths at ptr against count
run_rejected(ptr, len, cnt) == ptr + len >= cnt

\* one iteration of the loop of read_encoded_luts
code_length(m, checks) ==
    LET l == m.luts
        cnt == l.ll_len + l.dt_len
        o(code) == [NoOp EXCEPT !.kind = "length", !.code = code, !.start = l.ptr]
        \* codes 16, 17, 18: len times value from ptr on
        repeat(c, extra, len, value) ==
            IF extra.err # "" THEN Fail([m EXCEPT !.sptr = c.sptr, !.op = o(c.val)], extra.err)
            ELSE IF run_rejected(l.ptr, len, cnt)
            THEN Fail([m EXCEPT !.sptr = extra.sptr,
                                !.op = [o(c.val) EXCEPT !.kind = "run", !.length = len]],
                      "InvalidData")
            ELSE next_length(m, fill(l.bitlen, l.ptr, len, value), l.ptr + len, extra.sptr,
                             [o(c.val) EXCEPT !.kind = "run", !.length = len], checks)
        extended(c, extra) ==
            repeat(c, extra, (IF c.val = 18 THEN 11 ELSE 3) + extra.val,
                   IF c.val = 16 THEN at(l.bitlen, l.ptr - 1) ELSE 0)
        decoded(c) ==
            IF c.err # "" THEN Fail([m EXCEPT !.sptr = c.sptr], c.err)
            ELSE IF c.val <= 15
            THEN next_length(m, [l.bitlen EXCEPT ![l.ptr + 1] = c.val], l.ptr + 1, c.sptr,
                             [o(c.val) EXCEPT !.length = 1], checks)
            ELSE IF c.val = 16 /\ l.ptr = 0
            THEN Fail([m EXCEPT !.sptr = c.sptr, !.op = o(c.val)], "InvalidData")
            ELSE IF c.val \in {16, 17, 18}
            THEN extended(c, read_bits(m.src, c.sptr,
                                       IF c.val = 16 THEN 2 ELSE IF c.val = 17 THEN 3 ELSE 7))
            ELSE Fail([m EXCEPT !.sptr = c.sptr, !.op = o(c.val)], "InvalidData")
    IN  decoded(read_symbol(m.src, m.sptr, l.vlc_cl))

----------------------------------------------------------------------------
(* Back-reference engine: one iteration of the loop of inflate_huffman_block    *)

\* <<extra bits, base>>
DIST_INFO ==
    << <<0, 1>>, <<0, 2>>, <<0, 3>>, <<0, 4>>, <<1, 5>>, <<1, 7>>, <<2, 9>>, <<2, 13>>,
       <<3, 17>>, <<3, 25>>, <<4, 33>>, <<4, 49>>, <<5, 65>>, <<5, 97>>, <<6, 129>>,
       <<6, 193>>, <<7, 257>>, <<7, 385>>, <<8, 513>>, <<8, 769>>, <<9, 1025>>,
       <<9, 1537>>, <<10, 2049>>, <<10, 3073>>, <<11, 4097>>, <<11, 6145>>,
       <<12, 8193>>, <<12, 12289>>, <<13, 16385>>, <<13, 24577>> >>

CODE_INFO ==
    << <<0, 3>>, <<0, 4>>, <<0, 5>>, <<0, 6>>, <<0, 7>>, <<0, 8>>, <<0, 9>>, <<0, 10>>,
       <<1, 11>>, <<1, 13>>, <<1, 15>>, <<1, 17>>, <<2, 19>>, <<2, 23>>, <<2, 27>>,
       <<2, 31>>, <<3, 35>>, <<3, 43>>, <<3, 51>>, <<3, 59>>, <<4, 67>>, <<4, 83>>,
       <<4, 99>>, <<4, 115>>, <<5, 131>>, <<5, 163>>, <<5, 195>>, <<5, 227>>, <<0, 258>> >>

\* dst.copy_within(from..to, dest)
copy_within(d, from, to, dest) ==
    [k \in 1..Len(d) |->
        IF k - 1 >= dest /\ k - 1 < dest + (to - from) THEN d[k - dest + from] ELSE d[k]]

RECURSIVE copy_loops(_, _, _, _, _)
\* the iterations lo..hi (counted from 0) of `for _ in 0..loops`, in order; in
\* iteration i, *dptr is start + i * distance (the range is halved only to keep the
\* evaluation shallow)
copy_loops(d, start, distance, lo, hi) ==
    IF Len(d) = 0 \/ lo > hi THEN d
    ELSE IF lo = hi THEN copy_within(d, start - distance, start, start + lo * distance)
    ELSE LET mid == (lo + hi) \div 2
         IN  copy_loops(copy_loops(d, start, distance, lo, mid), start, distance, mid + 1, hi)

\* one copy_within of all length bytes: every byte is read before any is written,
\* so a run longer than its distance does not repeat
back_reference_at_once(d, start, distance, length) ==
    copy_within(d, start - distance, start - distance + length, start)

\* the copy taken from the output offset on instead of distance bytes before it:
\* it reads the bytes of dst that have not been produced yet
back_reference_ahead(d, start, distance, length) ==
    copy_within(d, start, start + length, start)

\* the general path's copy: dst after the loop and the copy of the remaining bytes
back_reference(d, start, distance, length) ==
    LET loops == length \div distance
        remain == length % distance
        looped == copy_loops(d, start, distance, 0, loops - 1)
    IN  copy_within(looped, start - distance, start - distance + remain,
                    start + loops * distance)

\* the fill with the byte at start, not the one before it
run_of_byte_at_start(d, start, length) == fill(d, start, length, at(d, start))

\* the distance-1 path's fill: dst after dst[start..start + length].fill(value)
run_of_last_byte(d, start, length) == fill(d, start, length, at(d, start - 1))

\* one iteration of the loop of inflate_huffman_block
huffman_symbol(m, checks) ==
    LET start == m.dptr
        head(code_ll) == [NoOp EXCEPT !.kind = "match", !.code = code_ll, !.start = start]
        \* the general path, from `if distance > start` on
        copy(code_ll, length, code_d, ed, distance) ==
            LET ref == [head(code_ll) EXCEPT !.kind = "copy", !.length = length,
                                             !.code_d = code_d, !.distance = distance]
            IN  IF distance > start
                THEN Fail([m EXCEPT !.sptr = ed.sptr, !.op = ref], "InvalidDistance")
                ELSE IF length > Len(m.dst) - start
                THEN Fail([m EXCEPT !.sptr = ed.sptr, !.op = ref], "InvalidLength")
                ELSE [m EXCEPT !.sptr = ed.sptr, !.op = ref,
                               !.dst = back_reference(m.dst, start, distance, length),
                               !.dptr = start + length]
        far(code_ll, length, cd, ed) ==
            IF ed.err # ""
            THEN Fail([m EXCEPT !.sptr = cd.sptr, !.op = head(code_ll)], ed.err)
            ELSE copy(code_ll, length, cd.val, ed, DIST_INFO[cd.val + 1][2] + ed.val)
        \* the distance-1 path
        near(code_ll, length, cd) ==
            LET run == [head(code_ll) EXCEPT !.kind = "fill", !.length = length,
                                             !.distance = 1]
            IN  \* start - 1 overflows usize at start 0; wrapped, dst.get finds nothing
                IF start = 0
                THEN Fail([m EXCEPT !.sptr = cd.sptr, !.op = run],
                          IF checks THEN "Panic" ELSE "InvalidDistance")
                ELSE IF start + length > Len(m.dst)
                THEN Fail([m EXCEPT !.sptr = cd.sptr, !.op = run], "InvalidLength")
                ELSE [m EXCEPT !.sptr = cd.sptr, !.op = run,
                               !.dst = run_of_last_byte(m.dst, start, length),
                               !.dptr = m.dptr + length]
        distanced(code_ll, length, cd) ==
            IF cd.err # "" THEN Fail([m EXCEPT !.sptr = cd.sptr, !.op = head(code_ll)], cd.err)
            ELSE IF cd.val = 0 THEN near(code_ll, length, cd)
            ELSE IF cd.val >= Len(DIST_INFO)
            THEN Fail([m EXCEPT !.sptr = cd.sptr,
                                !.op = [head(code_ll) EXCEPT !.kind = "baddist",
                                                             !.length = length,
                                                             !.code_d = cd.val]],
                      "InvalidDistance")
            ELSE far(code_ll, length, cd, read_bits(m.src, cd.sptr, DIST_INFO[cd.val + 1][1]))
        lengthed(c, eb) ==
            IF eb.err # "" THEN Fail([m EXCEPT !.sptr = c.sptr, !.op = head(c.val)], eb.err)
            ELSE distanced(c.val, CODE_INFO[c.val - 257 + 1][2] + eb.val,
                           read_symbol(m.src, eb.sptr, m.trees[2]))
        decoded(c) ==
            IF c.err # "" THEN Fail([m EXCEPT !.sptr = c.sptr, !.op = NoOp], c.err)
            ELSE IF c.val <= 255
            THEN \* dst[*dptr] panics at the end of dst
                 IF m.dptr >= Len(m.dst)
                 THEN Fail([m EXCEPT !.sptr = c.sptr,
                                     !.op = [NoOp EXCEPT !.kind = "literal", !.code = c.val,
                                                         !.start = start, !.length = 1]],
                           "Panic")
                 ELSE [m EXCEPT !.sptr = c.sptr,
                                !.op = [NoOp EXCEPT !.kind = "literal", !.code = c.val,
                                                    !.start = start, !.length = 1],
                                !.dst[m.dptr + 1] = c.val, !.dptr = m.dptr + 1]
            ELSE IF c.val = 256
            THEN end_of_block([m EXCEPT !.sptr = c.sptr,
                                        !.op = [NoOp EXCEPT !.kind = "eob", !.code = c.val]])
            ELSE IF c.val <= 285
            THEN lengthed(c, read_bits(m.src, c.sptr, CODE_INFO[c.val - 257 + 1][1]))
            ELSE Fail([m EXCEPT !.sptr = c.sptr,
                                !.op = [NoOp EXCEPT !.kind = "badsym", !.code = c.val]],
                      "InvalidSymbol")
    IN  decoded(read_symbol(m.src, m.sptr, m.trees[1]))

----------------------------------------------------------------------------
(* inflate as a whole: the loop over the blocks                                 *)

\* inflate at its first statement
inflate_entry(d, s) ==
    [src |-> s, dst |-> d, sptr |-> 0, dptr |-> 0, pc |-> "loop", b_final |-> 0,
     b_type |-> 0, trees |-> <<>>, luts |-> <<>>, op |-> NoOp, result |-> ""]

\* the next step of a call that has not returned
inflate_step(m, checks, fixed) ==
    IF m.pc = "loop" THEN block_header(m)
    ELSE IF m.pc = "block"
    THEN IF m.b_type = 0 THEN inflate_no_compression(m)
         ELSE IF m.b_type = 1 THEN fixed_block(m, fixed)
         ELSE IF m.b_type = 2 THEN encoded_luts_head(m, checks)
         ELSE Fail(m, "InvalidBlockType")
    ELSE IF m.pc = "lengths" THEN code_length(m, checks)
    ELSE huffman_symbol(m, checks)

RECURSIVE inflate_from(_, _, _)
\* the call run from m until it returns
inflate_from(m, checks, fixed) ==
    IF m.pc = "done" THEN m ELSE inflate_from(inflate_step(m, checks, fixed), checks, fixed)

\* inflate(dst, src): the call when it has returned; Ok(dptr) is result "Ok"
inflate(d, s, checks, fixed) == inflate_from(inflate_entry(d, s), checks, fixed)

----------------------------------------------------------------------------
(* The inputs: DEFLATE streams written as RFC 1951 describes them (section     *)
(* 3.2), independently of the decoder's tables.  A stream is a sequence of      *)
(* blocks; a block is stored bytes, or tokens under the fixed or a dynamic      *)
(* code; a token is a literal or a <length, distance> pair.                     *)

\* the n bits of v, most significant first (Huffman codes)
MsbBits(v, n) == [k \in 1..n |-> (v \div Pow2(n - k)) % 2]

\* the n bits of v, least significant first (every other field)
LsbBits(v, n) == [k \in 1..n |-> (v \div Pow2(k - 1)) % 2]

Log2(x) == CHOOSE e \in 0..15 : Pow2(e) <= x /\ x < Pow2(e + 1)

\* RFC 1951 3.2.5: <<symbol, extra bits, extra value>> of a length 3..258
LengthSymbol(l) ==
    LET x == l - 3
        e == Log2(x) - 2
    IN  IF l = 258 THEN <<285, 0, 0>>
        ELSE IF x < 8 THEN <<257 + x, 0, 0>>
        ELSE <<257 + 4 * e + x \div Pow2(e), e, x % Pow2(e)>>

\* RFC 1951 3.2.5: <<symbol, extra bits, extra value>> of a distance 1..32768
DistanceSymbol(d) ==
    LET y == d - 1
        e == Log2(y) - 1
    IN  IF y < 4 THEN <<y, 0, 0>>
        ELSE <<2 * e + y \div Pow2(e), e, y % Pow2(e)>>

\* RFC 1951 3.2.6: <<code, length>> of a literal/length symbol in a fixed block
FixedCode(symbol) ==
    IF symbol < 144 THEN <<48 + symbol, 8>>
    ELSE IF symbol < 256 THEN <<400 + symbol - 144, 9>>
    ELSE IF symbol < 280 THEN <<symbol - 256, 7>>
    ELSE <<192 + symbol - 280, 8>>

FixedDistanceCode(symbol) == <<symbol, 5>>

RECURSIVE FirstCode(_, _)
\* RFC 1951 3.2.2, step 2: the smallest code of length l (bl_count[0] is 0)
FirstCode(lens, l) ==
    IF l <= 1 THEN 0
    ELSE 2 * (FirstCode(lens, l - 1) + Cardinality({k \in DOMAIN lens : lens[k] = l - 1}))

\* RFC 1951 3.2.2, step 3: <<code, length>> of symbol symbol (counted from 0)
CanonicalCode(lens, symbol) ==
    LET l == at(lens, symbol)
    IN  <<FirstCode(lens, l) + Cardinality({k \in 1..symbol : lens[k] = l}), l>>

Lit(b) == [len |-> 0, dist |-> 0, lit |-> b, dsym |-> -1]
Match(l, d) == [len |-> l, dist |-> d, lit |-> 0, dsym |-> -1]
\* a length followed by the distance symbol s, which stands for no distance
NoDistance(l, s) == [len |-> l, dist |-> 0, lit |-> 0, dsym |-> s]

\* the bits of a token under the codes ll and d (empty for the fixed codes)
TokenBits(t, ll, d) ==
    LET Code(symbol) == IF ll = <<>> THEN FixedCode(symbol) ELSE CanonicalCode(ll, symbol)
        DCode(symbol) == IF ll = <<>> THEN FixedDistanceCode(symbol) ELSE CanonicalCode(d, symbol)
        ls == LengthSymbol(t.len)
        ds == IF t.dsym >= 0 THEN <<t.dsym, 0, 0>> ELSE DistanceSymbol(t.dist)
    IN  IF t.len = 0 THEN MsbBits(Code(t.lit)[1], Code(t.lit)[2])
        ELSE MsbBits(Code(ls[1])[1], Code(ls[1])[2]) \o LsbBits(ls[3], ls[2])
             \o MsbBits(DCode(ds[1])[1], DCode(ds[1])[2]) \o LsbBits(ds[3], ds[2])

RECURSIVE TokensBits(_, _, _)
TokensBits(ts, ll, d) ==
    IF ts = <<>> THEN <<>> ELSE TokenBits(Head(ts), ll, d) \o TokensBits(Tail(ts), ll, d)

RECURSIVE BytesBits(_)
BytesBits(bs) == IF bs = <<>> THEN <<>> ELSE LsbBits(Head(bs), 8) \o BytesBits(Tail(bs))

Fixed(ts) == [type |-> 1, tokens |-> ts, bytes |-> <<>>, ll |-> <<>>, d |-> <<>>, cl |-> <<>>,
              lengths |-> <<>>]
Stored(bs) == [type |-> 0, tokens |-> <<>>, bytes |-> bs, ll |-> <<>>, d |-> <<>>, cl |-> <<>>,
               lengths |-> <<>>]

RECURSIVE ExpandLengths(_, _)
\* RFC 1951 3.2.7: the code lengths a sequence of <<code-length symbol, extra
\* value>> stands for, appended to out
ExpandLengths(cs, out) ==
    IF cs = <<>> THEN out
    ELSE LET c == Head(cs)
             n == IF c[1] < 16 THEN 1 ELSE IF c[1] = 18 THEN 11 + c[2] ELSE 3 + c[2]
             v == IF c[1] < 16 THEN c[1] ELSE IF c[1] = 16 THEN out[Len(out)] ELSE 0
         IN  ExpandLengths(Tail(cs), out \o [k \in 1..n |-> v])

\* a dynamic block of hlit literal/length codes whose code lengths are sent as
\* cs under the code-length code cl
Dynamic(ts, hlit, cl, cs) ==
    LET all == ExpandLengths(cs, <<>>)
    IN  [type |-> 2, tokens |-> ts, bytes |-> <<>>, ll |-> SubSeq(all, 1, hlit),
         d |-> SubSeq(all, hlit + 1, Len(all)), cl |-> cl, lengths |-> cs]

RECURSIVE LengthsBits(_, _)
LengthsBits(cs, cl) ==
    IF cs = <<>> THEN <<>>
    ELSE LET c == Head(cs)
             w == IF c[1] = 16 THEN 2 ELSE IF c[1] = 17 THEN 3 ELSE IF c[1] = 18 THEN 7 ELSE 0
         IN  MsbBits(CanonicalCode(cl, c[1])[1], CanonicalCode(cl, c[1])[2])
             \o LsbBits(c[2], w) \o LengthsBits(Tail(cs), cl)

RECURSIVE ClBits(_, _)
\* the code lengths of the code-length code, in the order of 3.2.7, from the k-th
ClBits(cl, k) ==
    IF k > 19 THEN <<>> ELSE LsbBits(at(cl, CODE_LEN_PERM[k]), 3) \o ClBits(cl, k + 1)

\* the bits of block b, last telling BFINAL, written at bit position pos
BlockBits(b, last, pos) ==
    LET final == IF last THEN 1 ELSE 0
        pad == (8 - ((pos + 3) % 8)) % 8
    IN  IF b.type = 0
        THEN <<final, 0, 0>> \o [k \in 1..pad |-> 0]
             \o LsbBits(Len(b.bytes), 16) \o LsbBits(65535 - Len(b.bytes), 16)
             \o BytesBits(b.bytes)
        ELSE IF b.type = 1
        THEN <<final, 1, 0>> \o TokensBits(b.tokens, <<>>, <<>>)
             \o MsbBits(FixedCode(256)[1], FixedCode(256)[2])
        ELSE <<final, 0, 1>> \o LsbBits(Len(b.ll) - 257, 5) \o LsbBits(Len(b.d) - 1, 5)
             \o LsbBits(19 - 4, 4) \o ClBits(b.cl, 1) \o LengthsBits(b.lengths, b.cl)
             \o TokensBits(b.tokens, b.ll, b.d)
             \o MsbBits(CanonicalCode(b.ll, 256)[1], CanonicalCode(b.ll, 256)[2])

RECURSIVE StreamBits(_, _)
\* the bits of the blocks bs, written after the bits sofar
StreamBits(bs, sofar) ==
    IF bs = <<>> THEN sofar
    ELSE StreamBits(Tail(bs), sofar \o BlockBits(Head(bs), Len(bs) = 1, Len(sofar)))

\* bits packed into bytes, the first bit in the least significant place
Pack(bs) ==
    LET Bit(i) == IF i <= Len(bs) THEN bs[i] ELSE 0
    IN  [k \in 1..((Len(bs) + 7) \div 8) |->
            Bit(8 * k - 7) + 2 * Bit(8 * k - 6) + 4 * Bit(8 * k - 5) + 8 * Bit(8 * k - 4)
            + 16 * Bit(8 * k - 3) + 32 * Bit(8 * k - 2) + 64 * Bit(8 * k - 1)
            + 128 * Bit(8 * k)]

Encode(bs) == Pack(StreamBits(bs, <<>>))

RECURSIVE CopyBytes(_, _, _)
\* RFC 1951 3.2.3: n bytes copied one at a time from distance d back
CopyBytes(out, d, n) ==
    IF n = 0 THEN out ELSE CopyBytes(Append(out, out[Len(out) + 1 - d]), d, n - 1)

RECURSIVE ExpandTokens(_, _)
\* the data the tokens stand for, appended to out; <<-1>> when a distance reaches
\* before the start of the data
ExpandTokens(ts, out) ==
    IF ts = <<>> \/ out = <<-1>> THEN out
    ELSE LET t == Head(ts)
         IN  IF t.len = 0 THEN ExpandTokens(Tail(ts), Append(out, t.lit))
             ELSE IF t.dsym >= 0 \/ t.dist > Len(out) THEN <<-1>>
             ELSE ExpandTokens(Tail(ts), CopyBytes(out, t.dist, t.len))

RECURSIVE Decoded(_, _)
\* the data the blocks stand for; <<-1>> when they are no valid encoding
Decoded(bs, out) ==
    IF bs = <<>> \/ out = <<-1>> THEN out
    ELSE LET b == Head(bs)
         IN  Decoded(Tail(bs),
                     IF b.type = 0 THEN out \o b.bytes ELSE ExpandTokens(b.tokens, out))

----------------------------------------------------------------------------
(* The calls of inflate that are followed: every stream of one fixed block of   *)
(* up to MaxTokens tokens, a list of streams of the other kinds, and byte       *)
(* sequences that are no encoder's output, each into a dst of up to MaxCap      *)
(* bytes, under both builds.                                                    *)

MaxTokens == 2
MaxCap == 7
MaxLit == 2
MaxLength == 3
MaxDistance == 3

Tokens ==
    {Lit(b) : b \in 1..MaxLit} \cup {Match(l, d) : l \in 3..MaxLength, d \in 1..MaxDistance}

TokenSeqs == UNION {[1..n -> Tokens] : n \in 0..MaxTokens}

\* code lengths 2 for the code-length symbols in set, 0 for the others
ClCode(set) == [k \in 1..19 |-> IF k - 1 \in set THEN 2 ELSE 0]

\* literals 1 and 2, the end marker and length 3 on 2 bits each, two distances
\* on 1 bit each: the last run of lengths ends before the end of the lengths
DynamicShort(ts) ==
    Dynamic(ts, 258, ClCode({0, 1, 2, 18}),
            << <<0, 0>>, <<2, 0>>, <<2, 0>>, <<18, 127>>, <<18, 104>>, <<2, 0>>, <<2, 0>>,
               <<1, 0>>, <<1, 0>> >>)

\* the same literal/length code and four distances on 2 bits each: the last run
\* of lengths (symbol 16, 5 times) ends with the last length
DynamicRunToEnd(ts) ==
    Dynamic(ts, 258, ClCode({0, 2, 16, 18}),
            << <<0, 0>>, <<2, 0>>, <<2, 0>>, <<18, 127>>, <<18, 104>>, <<2, 0>>, <<16, 2>> >>)

OtherStreams ==
    { <<DynamicShort(<<Lit(1), Lit(2), Match(3, 2)>>)>>,
      <<DynamicRunToEnd(<<Lit(1), Lit(2), Match(3, 2)>>)>>,
      <<Stored(<<>>)>>,
      <<Stored(<<7, 8, 9>>)>>,
      <<Fixed(<<Lit(1)>>), Stored(<<7, 8>>), Fixed(<<Match(3, 3)>>)>>,
      <<Stored(<<7, 8>>), Fixed(<<Match(4, 1), Lit(200)>>)>>,
      <<Fixed(<<Lit(1), Lit(2), Lit(3), Lit(4), Match(3, 4)>>)>>,
      <<Fixed(<<Lit(1), Lit(2), Lit(3), Match(4, 3)>>)>>,
      <<Fixed(<<Lit(1), Lit(2), Match(5, 2)>>)>>,
      <<Fixed(<<Lit(1), Match(6, 1)>>)>>,
      <<Fixed(<<Lit(1), Match(3, 5)>>)>>,
      <<Fixed(<<Lit(1), NoDistance(3, 30)>>)>>,
      <<Fixed(<<Lit(1), NoDistance(3, 31)>>)>>,
      <<Fixed(<<NoDistance(3, 30)>>)>> }

\* byte sequences that are not built from blocks: a block of type 3, a truncated
\* stored block, a stored block whose lengths disagree, a fixed block cut short
\* after its end marker's first bits, an empty input
RawStreams ==
    { <<7>>, <<1, 1, 0>>, <<1, 1, 0, 0, 0, 5>>, <<1, 2, 0, 253, 255, 5>>, <<3>>, <<3, 0>>,
      <<>>, <<5>> }

\* streams that go on after their final block: a stream of OtherStreams, then
\* the bytes of another stream
FollowedStreams ==
    { <<Fixed(<<Lit(1)>>)>>,
      <<Stored(<<7, 8>>), Fixed(<<Match(4, 1), Lit(200)>>)>> }

Inputs ==
    {[blocks |-> bs, src |-> Encode(bs), data |-> Decoded(bs, <<>>)] :
        bs \in {<<Fixed(ts)>> : ts \in TokenSeqs} \cup OtherStreams}
    \cup {[blocks |-> bs, src |-> Encode(bs) \o Encode(<<Fixed(<<Lit(2)>>)>>),
           data |-> Decoded(bs, <<>>)] : bs \in FollowedStreams}
    \cup {[blocks |-> <<>>, src |-> r, data |-> <<-1>>] : r \in RawStreams}

\* the variables of the specifications that do not use them
IdleBits == bp = 0 /\ count = 0 /\ bits = Ok(0)
IdleTable == inp = <<>> /\ lut = [err |-> "", table |-> <<>>] /\ sym = [err |-> "", val |-> 0, sptr |-> 0]
IdleCodes == word = 0 /\ rev = 0 /\ codes = [overflow |-> FALSE, code |-> <<>>]
IdlePng ==
    /\ filtered = <<>> /\ recon = <<>> /\ precon = <<>>
    /\ filter_type = "None" /\ cx = 0 /\ N = 1

\* the call as the record the operators work on
Machine ==
    [src |-> src, dst |-> dst, sptr |-> sptr, dptr |-> dptr, pc |-> pc, b_final |-> b_final,
     b_type |-> b_type, trees |-> trees, luts |-> luts, op |-> op, result |-> result]

Becomes(m) ==
    /\ src' = m.src /\ dst' = m.dst /\ sptr' = m.sptr /\ dptr' = m.dptr /\ pc' = m.pc
    /\ b_final' = m.b_final /\ b_type' = m.b_type /\ trees' = m.trees /\ luts' = m.luts
    /\ op' = m.op /\ result' = m.result
    /\ UNCHANGED <<overflow_checks, fixed_luts, bp, count, bits, inp, lut, sym, word, rev,
                   codes, given,
                   filtered, recon, precon, filter_type, cx, N>>

Init ==
    /\ overflow_checks \in BOOLEAN
    /\ fixed_luts = generate_fixed_luts(overflow_checks)
    /\ given \in Inputs
    /\ \E cap \in 0..MaxCap :
          LET m == inflate_entry([k \in 1..cap |-> 0], given.src)
          IN  /\ src = m.src /\ dst = m.dst /\ sptr = m.sptr /\ dptr = m.dptr /\ pc = m.pc
              /\ b_final = m.b_final /\ b_type = m.b_type /\ trees = m.trees
              /\ luts = m.luts /\ op = m.op /\ result = m.result
    /\ IdleBits /\ IdleTable /\ IdleCodes /\ IdlePng

ReadBlockHeader == pc = "loop" /\ Becomes(block_header(Machine))

StoredBlock == pc = "block" /\ b_type = 0 /\ Becomes(inflate_no_compression(Machine))

FixedBlock == pc = "block" /\ b_type = 1 /\ Becomes(fixed_block(Machine, fixed_luts))

DynamicBlock ==
    pc = "block" /\ b_type = 2 /\ Becomes(encoded_luts_head(Machine, overflow_checks))

InvalidBlockType == pc = "block" /\ b_type = 3 /\ Becomes(Fail(Machine, "InvalidBlockType"))

CodeLength == pc = "lengths" /\ Becomes(code_length(Machine, overflow_checks))

HuffmanSymbol == pc = "huffman" /\ Becomes(huffman_symbol(Machine, overflow_checks))

Next ==
    \/ ReadBlockHeader
    \/ StoredBlock
    \/ FixedBlock
    \/ DynamicBlock
    \/ InvalidBlockType
    \/ CodeLength
    \/ HuffmanSymbol

Spec == Init /\ [][Next]_vars

----------------------------------------------------------------------------
(* The bit reader alone: show_bits and read_bits called once on every source of *)
(* up to MaxBytes bytes, at every bit position up to one byte past its end, for *)
(* every count up to MaxCount.                                                  *)

MaxBytes == 3
MaxCount == 13

BitBytes == {0, 3, 255}

ByteSeqs == UNION {[1..n -> BitBytes] : n \in 0..MaxBytes}

\* the variables of inflate in the specifications that do not call it
IdleInflate ==
    /\ dst = <<>> /\ dptr = 0 /\ b_final = 0 /\ b_type = 0 /\ trees = <<>> /\ luts = <<>>
    /\ fixed_luts = <<>> /\ op = NoOp /\ result = ""
    /\ given = [blocks |-> <<>>, src |-> <<>>, data |-> <<>>]

InitBits ==
    /\ overflow_checks \in BOOLEAN
    /\ src \in ByteSeqs
    /\ bp \in 0..(8 * MaxBytes + 8)
    /\ count \in 0..MaxCount
    /\ sptr = bp
    /\ bits = Ok(0)
    /\ pc = "call"
    /\ IdleInflate /\ IdleTable /\ IdleCodes /\ IdlePng

ShowBits ==
    /\ pc = "call"
    /\ bits' = show_bits(bp, src, count)
    /\ pc' = "shown"
    /\ UNCHANGED <<overflow_checks, src, dst, sptr, dptr, b_final, b_type, trees, luts,
                   fixed_luts, op, result, bp, count, inp, lut, sym, word, rev, codes, given,
                   filtered, recon, precon, filter_type, cx, N>>

ReadBits ==
    /\ pc = "call"
    /\ LET r == read_bits(src, sptr, count)
       IN  bits' = [err |-> r.err, val |-> r.val] /\ sptr' = r.sptr
    /\ pc' = "read"
    /\ UNCHANGED <<overflow_checks, src, dst, dptr, b_final, b_type, trees, luts,
                   fixed_luts, op, result, bp, count, inp, lut, sym, word, rev, codes, given,
                   filtered, recon, precon, filter_type, cx, N>>

NextBits == ShowBits \/ ReadBits

SpecBits == InitBits /\ [][NextBits]_vars

----------------------------------------------------------------------------
(* The tables alone: make_lookup_table called on a code-length vector, then      *)
(* read_symbol called once on the table it returned.  The vectors are all those  *)
(* of up to MaxSymbols lengths 0..MaxShort, and, after up to MaxZeros unused     *)
(* symbols, the vectors 1, 2, ..., l - 1, l, l of Kraft sum 1 for every l up to  *)
(* 15, each also without its last length (sum below 1), with one more length l   *)
(* (sum above 1), and cut down to its last length alone (one symbol); and the    *)
(* vectors of many long codes of WideVectors.                                    *)

MaxSymbols == 4
MaxShort == 3
MaxZeros == 2
MaxBitOffset == 1

Zeros(n) == [k \in 1..n |-> 0]

\* the lengths 1, 2, ..., l - 1, l, l
Chain(l) == [k \in 1..(l + 1) |-> IF k <= l THEN k ELSE l]

LengthVectors ==
    UNION {[1..n -> 0..MaxShort] : n \in 1..MaxSymbols}
    \cup UNION {{Zeros(z) \o Chain(l),
                 Zeros(z) \o SubSeq(Chain(l), 1, l),
                 Zeros(z) \o Chain(l) \o <<l>>,
                 Zeros(z) \o <<l>>,
                 Zeros(z) \o <<l>> \o Zeros(z)} : z \in 0..MaxZeros, l \in 1..(MAX_CODE_LENGTH - 1)}

\* vectors of many long codes: twenty codes of 10 bits under ten 9-bit prefixes,
\* 288 codes of 15 bits, and 25 codes of 10 bits, one each of 11 to 14 bits and
\* 259 of 15 bits, which spread the most secondary tables over 288 symbols
WideVectors ==
    { [k \in 1..20 |-> 10],
      [k \in 1..NUM_DEFLATE_CODE_SYMBOLS |-> 15],
      [k \in 1..25 |-> 10] \o <<11, 12, 13, 14>> \o [k \in 1..259 |-> 15] }

PatternBytes == {0, 1, 2, 128, 255}

Patterns == {<<>>, <<0>>, <<255>>} \cup {<<a, b>> : a \in PatternBytes, b \in PatternBytes}

InitTable ==
    /\ overflow_checks \in BOOLEAN
    /\ inp \in LengthVectors \cup WideVectors
    /\ lut = [err |-> "", table |-> <<>>]
    /\ sym = [err |-> "", val |-> 0, sptr |-> 0]
    /\ src = <<>> /\ sptr = 0
    /\ pc = "vector"
    /\ IdleInflate /\ IdleBits /\ IdleCodes /\ IdlePng

MakeLookupTable ==
    /\ pc = "vector"
    /\ lut' = make_lookup_table(inp, overflow_checks)
    /\ pc' = "table"
    /\ UNCHANGED <<overflow_checks, src, dst, sptr, dptr, b_final, b_type, trees, luts,
                   fixed_luts, op, result, bp, count, bits, inp, sym, word, rev, codes, given,
                   filtered, recon, precon, filter_type, cx, N>>

\* the inputs that hold, from bit p on, the RFC 1951 code of a symbol of lens:
\* p bits 1, the code, then nothing or nine bits 1
Codewords(lens, p) ==
    {Pack([k \in 1..p |-> 1]
          \o MsbBits(CanonicalCode(lens, i - 1)[1], CanonicalCode(lens, i - 1)[2]) \o t) :
        i \in {k \in DOMAIN lens : lens[k] # 0}, t \in {<<>>, [k \in 1..9 |-> 1]}}

ReadSymbol ==
    /\ pc = "table" /\ lut.err = ""
    /\ \E p \in 0..MaxBitOffset : \E s \in Patterns \cup Codewords(inp, p) :
          /\ src' = s /\ sptr' = p
          /\ sym' = read_symbol(s, p, lut.table)
    /\ pc' = "symbol"
    /\ UNCHANGED <<overflow_checks, dst, dptr, b_final, b_type, trees, luts,
                   fixed_luts, op, result, bp, count, bits, inp, lut, word, rev, codes, given,
                   filtered, recon, precon, filter_type, cx, N>>

NextTable == MakeLookupTable \/ ReadSymbol

SpecTable == InitTable /\ [][NextTable]_vars

----------------------------------------------------------------------------
(* The code generator alone: reverse_bits called once on every x below 2^count   *)
(* for every count from 1 to 15, and generate_codes called once on every vector  *)
(* of LengthVectors and WideVectors.                                             *)

InitCodes ==
    /\ overflow_checks \in BOOLEAN
    /\ \/ /\ pc = "bits"
          /\ count \in 1..(MAX_CODE_LENGTH - 1)
          /\ word \in 0..(Pow2(MAX_CODE_LENGTH - 1) - 1)
          /\ word < Pow2(count)
          /\ inp = <<>>
       \/ /\ pc = "vector"
          /\ count = 0 /\ word = 0
          /\ inp \in LengthVectors \cup WideVectors
    /\ rev = 0
    /\ codes = [overflow |-> FALSE, code |-> <<>>]
    /\ lut = [err |-> "", table |-> <<>>]
    /\ sym = [err |-> "", val |-> 0, sptr |-> 0]
    /\ src = <<>> /\ sptr = 0
    /\ bp = 0 /\ bits = Ok(0)
    /\ IdleInflate /\ IdlePng

ReverseBits ==
    /\ pc = "bits"
    /\ rev' = reverse_bits(word, count)
    /\ pc' = "reversed"
    /\ UNCHANGED <<overflow_checks, src, dst, sptr, dptr, b_final, b_type, trees, luts,
                   fixed_luts, op, result, bp, count, bits, inp, lut, sym, word, codes, given,
                   filtered, recon, precon, filter_type, cx, N>>

\* generate_codes on the lengths inp: with overflow checks, an overflowing u16
\* addition panics and no code is returned
GenerateCodes ==
    /\ pc = "vector"
    /\ LET gc == generate_codes(inp)
       IN  codes' = IF gc.overflow /\ overflow_checks
                    THEN [overflow |-> TRUE, code |-> <<>>]
                    ELSE gc
    /\ pc' = "codes"
    /\ UNCHANGED <<overflow_checks, src, dst, sptr, dptr, b_final, b_type, trees, luts,
                   fixed_luts, op, result, bp, count, bits, inp, lut, sym, word, rev, given,
                   filtered, recon, precon, filter_type, cx, N>>

NextCodes == ReverseBits \/ GenerateCodes

SpecCodes == InitCodes /\ [][NextCodes]_vars

----------------------------------------------------------------------------
(* PNG scanline unfiltering (png_read.rs): unfilter_scanline_0 and              *)
(* unfilter_scanline_n called once on a line of cx bytes with a previous line   *)
(* of cx bytes.  cx >= N, as in the calls unfilter makes for an image of 8-bit  *)
(* channels (cx = width * N); the line may be followed by one more byte, as     *)
(* the slice unfilter passes is followed by the lines below.                    *)

PNGFilterType == {"None", "Sub", "Up", "Average", "Paeth"}

\* u8::wrapping_add
wrapping_add(a, b) == (a + b) % 256

abs_diff(a, b) == IF a >= b THEN a - b ELSE b - a

paeth(a, b, c) ==
    LET p_a == abs_diff(b, c)
        p_b == abs_diff(a, c)
        p_c == abs_diff(a + b, 2 * c)
    IN  IF p_c < p_a /\ p_c < p_b THEN c
        ELSE IF p_b < p_a THEN b
        ELSE a

RECURSIVE sub_from(_, _, _, _)
\* for i in i..width { recon[i] = recon[i].wrapping_add(recon[i - N]) }
sub_from(n, line, i, width) ==
    IF i >= width THEN line
    ELSE sub_from(n, [line EXCEPT ![i + 1] = wrapping_add(at(line, i), at(line, i - n))],
                  i + 1, width)

RECURSIVE half_from(_, _, _, _)
\* for i in i..width { recon[i] = recon[i - N] / 2 }
half_from(n, line, i, width) ==
    IF i >= width THEN line
    ELSE half_from(n, [line EXCEPT ![i + 1] = at(line, i - n) \div 2], i + 1, width)

unfilter_scanline_0(n, line, ft, width) ==
    CASE ft \in {"None", "Up"} -> line
      [] ft \in {"Sub", "Paeth"} -> sub_from(n, line, n, width)
      [] ft = "Average" -> half_from(n, line, n, width)

RECURSIVE up_from(_, _, _, _)
\* for i in i..width { recon[i] = recon[i].wrapping_add(precon[i]) }
up_from(line, prev, i, width) ==
    IF i >= width THEN line
    ELSE up_from([line EXCEPT ![i + 1] = wrapping_add(at(line, i), at(prev, i))],
                 prev, i + 1, width)

RECURSIVE half_up_from(_, _, _, _)
\* for i in i..width { recon[i] = recon[i].wrapping_add(precon[i] / 2) }
half_up_from(line, prev, i, width) ==
    IF i >= width THEN line
    ELSE half_up_from([line EXCEPT ![i + 1] = wrapping_add(at(line, i), at(prev, i) \div 2)],
                      prev, i + 1, width)

RECURSIVE average_from(_, _, _, _, _)
\* for i in i..width { recon[i] += ((recon[i - N] as u16 + precon[i] as u16) / 2) as u8 }
average_from(n, line, prev, i, width) ==
    IF i >= width THEN line
    ELSE LET pred == ((at(line, i - n) + at(prev, i)) \div 2) % 256
         IN  average_from(n, [line EXCEPT ![i + 1] = wrapping_add(at(line, i), pred)],
                          prev, i + 1, width)

RECURSIVE paeth_from(_, _, _, _, _)
\* for i in i..width { recon[i] += paeth(recon[i - N], precon[i], precon[i - N]) }
paeth_from(n, line, prev, i, width) ==
    IF i >= width THEN line
    ELSE LET pred == paeth(at(line, i - n), at(prev, i), at(prev, i - n))
         IN  paeth_from(n, [line EXCEPT ![i + 1] = wrapping_add(at(line, i), pred)],
                        prev, i + 1, width)

unfilter_scanline_n(n, line, prev, ft, width) ==
    CASE ft = "None" -> line
      [] ft = "Sub" -> sub_from(n, line, n, width)
      [] ft = "Up" -> up_from(line, prev, 0, width)
      [] ft = "Average" -> average_from(n, half_up_from(line, prev, 0, n), prev, n, width)
      [] ft = "Paeth" -> paeth_from(n, up_from(line, prev, 0, n), prev, n, width)

MaxLine == 5

PixelBytes == {0, 131, 255}

\* the lines of 1 to MaxLine bytes
Lines == UNION {[1..len -> PixelBytes] : len \in 1..MaxLine}

\* the previous lines of width bytes: all zero, or all 255
PrevLines(width) == {[k \in 1..width |-> b] : b \in {0, 255}}

InitPng ==
    /\ overflow_checks \in BOOLEAN
    /\ recon \in Lines
    /\ filtered = recon
    /\ cx \in {Len(recon) - 1, Len(recon)}
    /\ N \in 1..4
    /\ N <= cx
    /\ precon \in PrevLines(cx)
    /\ filter_type \in PNGFilterType
    /\ pc = "line"
    /\ src = <<>> /\ sptr = 0
    /\ IdleInflate /\ IdleBits /\ IdleTable /\ IdleCodes

UnfilterScanline0 ==
    /\ pc = "line"
    /\ recon' = unfilter_scanline_0(N, recon, filter_type, cx)
    /\ pc' = "line_0"
    /\ UNCHANGED <<overflow_checks, src, dst, sptr, dptr, b_final, b_type, trees, luts,
                   fixed_luts, op, result, bp, count, bits, inp, lut, sym, word, rev, codes,
                   given, filtered, precon, filter_type, cx, N>>

UnfilterScanlineN ==
    /\ pc = "line"
    /\ recon' = unfilter_scanline_n(N, recon, precon, filter_type, cx)
    /\ pc' = "line_n"
    /\ UNCHANGED <<overflow_checks, src, dst, sptr, dptr, b_final, b_type, trees, luts,
                   fixed_luts, op, result, bp, count, bits, inp, lut, sym, word, rev, codes,
                   given, filtered, precon, filter_type, cx, N>>

NextPng == UnfilterScanline0 \/ UnfilterScanlineN

SpecPng == InitPng /\ [][NextPng]_vars

----------------------------------------------------------------------------
(* Properties of inflate (specification Spec)                                   *)

\* C1: round trip.  For every valid encoding of data d (blocks of any kind, the
\* last one final), inflate into a dst of at least Len(d) bytes returns
\* Ok(Len(d)) and leaves d in dst[0..Len(d)).
C1_RoundTrip ==
    (pc = "done" /\ given.blocks # <<>> /\ given.data # <<-1>> /\ Len(dst) >= Len(given.data))
    => /\ result = "Ok"
       /\ dptr = Len(given.data)
       /\ SubSeq(dst, 1, dptr) = given.data

\* C2: overlapping copy.  A back-reference that went through the general path
\* (distance >= 2, distance <= start, start + length <= Len(dst)) leaves
\* dst[start + k] = dst[start + k - distance] for every k < length, the output
\* offset at start + length, and dst[0..start) as it was.
C2_OverlappingCopy ==
    [][(HuffmanSymbol /\ op'.kind = "copy" /\ result' = "")
       => /\ op'.distance >= 2 /\ op'.start = dptr
          /\ \A k \in 0..(op'.length - 1) :
                at(dst', op'.start + k) = at(dst', op'.start + k - op'.distance)
          /\ dptr' = op'.start + op'.length
          /\ SubSeq(dst', 1, op'.start) = SubSeq(dst, 1, op'.start)]_vars

\* a copy longer than its distance has been made, over bytes that differ
C2_Witness ==
    /\ op.kind = "copy" /\ result = "" /\ op.length > op.distance
    /\ dptr = op.start + op.length
    /\ at(dst, op.start - 1) # at(dst, op.start - 2)

\* C3: distance-1 back-reference.  With distance symbol 0, start >= 1 and
\* start + length <= Len(dst), every byte of dst[start..start + length) equals
\* the byte dst[start - 1] that preceded the run, and the output offset advances
\* by exactly length.
C3_RunOfLastByte ==
    [][(HuffmanSymbol /\ op'.kind = "fill" /\ result' = "")
       => /\ op'.start = dptr /\ op'.start >= 1 /\ op'.start + op'.length <= Len(dst)
          /\ \A k \in 0..(op'.length - 1) : at(dst', op'.start + k) = at(dst, op'.start - 1)
          /\ dptr' = dptr + op'.length
          /\ SubSeq(dst', 1, op'.start) = SubSeq(dst, 1, op'.start)]_vars

\* a run of the preceding byte has been written
C3_Witness ==
    /\ op.kind = "fill" /\ result = "" /\ op.start >= 1 /\ op.length >= 3
    /\ dptr = op.start + op.length
    /\ at(dst, dptr - 1) = at(dst, op.start - 1) /\ at(dst, dptr - 1) # 0

\* the last step met a back-reference that reaches before the start of the output:
\* a distance symbol 30 or 31, a distance above the output offset, or distance 1 at
\* output offset 0
BadDistance ==
    \/ op.kind = "baddist"
    \/ op.kind = "copy" /\ op.distance > op.start
    \/ op.kind = "fill" /\ op.start = 0

\* C4: distance validation.  A back-reference whose distance is greater than the
\* output offset (distance 1 at offset 0 and the distance symbols 30 and 31
\* included) makes inflate return Err(InvalidDistance), and no byte is written
\* for it.
C4_DistanceValidation ==
    (pc = "done" /\ BadDistance)
    => /\ result = "InvalidDistance"
       /\ dptr = op.start
       /\ \A k \in op.start..(Len(dst) - 1) : at(dst, k) = 0

\* the last step would have produced bytes past the end of dst
Overrun ==
    \/ op.kind \in {"literal", "stored"} /\ op.start + op.length > Len(dst)
    \/ op.kind = "fill" /\ op.start >= 1 /\ op.start + op.length > Len(dst)
    \/ op.kind = "copy" /\ op.distance <= op.start /\ op.start + op.length > Len(dst)

\* C5: output too small.  Whenever decoding would produce more bytes than dst
\* holds, through a literal, a stored block or a back-reference, inflate returns
\* Err(InvalidLength); it never panics.
C5_OutputTooSmall == (pc = "done" /\ Overrun) => result = "InvalidLength"

\* byte sequences appended to a source
Tails == {<<0>>, <<255>>, <<1, 2>>, <<255, 255, 255>>}

\* C10: trailing input is ignored.  If inflate(dst, src) returns Ok(n), then for
\* every t, inflate(dst, src ++ t) returns Ok(n) with the same n bytes.
C10_TrailingInputIgnored ==
    (pc = "done" /\ result = "Ok")
    => \A t \in Tails :
          LET r == inflate([k \in 1..Len(dst) |-> 0], src \o t, overflow_checks, fixed_luts)
          IN  /\ r.result = "Ok"
              /\ r.dptr = dptr
              /\ SubSeq(r.dst, 1, dptr) = SubSeq(dst, 1, dptr)

----------------------------------------------------------------------------
(* Properties of the bit reader (specification SpecBits)                        *)

\* C9: bit-reader underflow.  show_bits(bp, src, count), and so read_bits,
\* returns Err(Underflow) whenever fewer than count bits remain in src from bit
\* position bp, that is whenever 8 * Len(src) - bp < count.
C9_Underflow ==
    (pc \in {"shown", "read"} /\ 8 * Len(src) - bp < count) => bits.err = "Underflow"

----------------------------------------------------------------------------
(* Properties of the tables (specification SpecTable)                           *)

RECURSIVE KraftUpTo(_, _)
\* the sum of 2^(15 - lens[k]) over the symbols k of a nonzero length up to l
KraftUpTo(lens, l) ==
    IF l = 0 THEN 0
    ELSE KraftUpTo(lens, l - 1) + Cardinality({k \in DOMAIN lens : lens[k] = l}) * Pow2(15 - l)

\* the Kraft sum of lens, in units of 2^-15: KraftOne stands for 1
Kraft(lens) == KraftUpTo(lens, 15)
KraftOne == Pow2(15)

NumPresent(lens) == Cardinality({k \in DOMAIN lens : lens[k] # 0})

TableMade == pc \in {"table", "symbol"}

\* C6: subscription validation.  make_lookup_table returns
\* Err(OverSubscribedTree) when the Kraft sum of the nonzero lengths is above 1,
\* Err(UnderSubscribedTree) when it is below 1 and at least two lengths are
\* nonzero, and Ok when it is exactly 1.
C6_SubscriptionValidation ==
    TableMade
    => /\ Kraft(inp) > KraftOne => lut.err = "OverSubscribedTree"
       /\ (Kraft(inp) < KraftOne /\ NumPresent(inp) >= 2) => lut.err = "UnderSubscribedTree"
       /\ Kraft(inp) = KraftOne => lut.err = ""

\* the code of symbol i begins the code of symbol j.  generate_codes stores a code
\* reversed, its first bit lowest, so the first lens[i] bits of j's code are the low
\* lens[i] bits of code[j]
IsPrefix(lens, code, i, j) == lens[i] <= lens[j] /\ code[j] % Pow2(lens[i]) = code[i]

\* C7: prefix-freeness.  For every vector make_lookup_table accepts, the codes
\* generate_codes gives the symbols of nonzero length form a prefix code: no code
\* begins another symbol's code, and no two symbols share a code.
C7_PrefixFree ==
    (TableMade /\ lut.err = "")
    => LET code == generate_codes(inp).code
           present == {k \in DOMAIN inp : inp[k] # 0}
       IN  \A i \in present : \A j \in present \ {i} : ~IsPrefix(inp, code, i, j)

\* a vector with codes of three lengths, one of them in a secondary table, is accepted
C7_Witness ==
    /\ TableMade /\ lut.err = ""
    /\ Cardinality({inp[k] : k \in DOMAIN inp} \ {0}) >= 3
    /\ \E k \in DOMAIN inp : inp[k] > FIRSTBITS

\* the only symbol of a nonzero length (counted from 0), and its length
TheSymbol(lens) == (CHOOSE k \in DOMAIN lens : lens[k] # 0) - 1
TheLength(lens) == at(lens, TheSymbol(lens))

\* bit i of s, 0 past its end
BitOf(s, i) == IF i \div 8 < Len(s) THEN (s[i \div 8 + 1] \div Pow2(i % 8)) % 2 ELSE 0

----------------------------------------------------------------------------
(* Properties of the dynamic tables (specification Spec)                        *)

\* the last step was a repeat (code-length symbol 16, 17 or 18) that
\* read_encoded_luts refused: ptr still stands where the run began
RunRefused == op.kind = "run" /\ result = "InvalidData" /\ luts.ptr = op.start

\* C11: code-length runs.  A repeat of len lengths at position ptr is refused
\* with InvalidData if and only if ptr + len > HLIT + HDIST; a run that ends
\* exactly at HLIT + HDIST is accepted and completes the vector.  Symbol 16 at
\* ptr = 0 is refused before its length is read.
C11_CodeLengthRuns ==
    /\ op.kind = "run" => (RunRefused <=> op.start + op.length > luts.ll_len + luts.dt_len)
    /\ (op.kind = "length" /\ op.code = 16 /\ op.start = 0) => result = "InvalidData"

----------------------------------------------------------------------------
(* Properties of the stored block (specification Spec)                          *)

\* C12: stored block.  inflate_no_compression rounds the bit position up to a
\* byte boundary; it returns Underflow if fewer than 4 header bytes remain,
\* InvalidBlockLength if LEN + NLEN # 0xFFFF, Underflow if fewer than LEN data
\* bytes remain, in that order; otherwise it appends the LEN bytes that follow the
\* header to the output unchanged, advances the output offset by LEN and the bit
\* position by (4 + LEN) * 8, and leaves it byte-aligned.
C12_StoredBlock ==
    [][StoredBlock
       => LET header == (sptr + 7) \div 8
              LEN == at(src, header) + 256 * at(src, header + 1)
              NLEN == at(src, header + 2) + 256 * at(src, header + 3)
          IN  IF Len(src) - header < 4 THEN result' = "Underflow"
              ELSE IF LEN + NLEN # 65535 THEN result' = "InvalidBlockLength"
              ELSE IF Len(src) - (header + 4) < LEN THEN result' = "Underflow"
              ELSE /\ result' \in {"", "Ok"}
                   /\ dptr' = dptr + LEN
                   /\ SubSeq(dst', dptr + 1, dptr + LEN) = SubSeq(src, header + 5, header + 4 + LEN)
                   /\ SubSeq(dst', 1, dptr) = SubSeq(dst, 1, dptr)
                   /\ sptr' = 8 * header + (4 + LEN) * 8
                   /\ sptr' % 8 = 0]_vars

----------------------------------------------------------------------------
(* Properties of the loop over the blocks (specification Spec)                  *)

\* a step that ends a block without an error
BlockEnds == (StoredBlock \/ HuffmanSymbol) /\ pc' \in {"loop", "done"} /\ result' \in {"", "Ok"}

\* C13: block sequencing.  inflate decodes the blocks in input order, carrying
\* the bit position and the output offset from one block to the next: a block
\* header moves only the bit position, by 3.  After a block whose final bit is 1
\* it returns Ok with the output offset, the sum of the bytes of all decoded
\* blocks, and takes no further step; after a block whose final bit is 0 it reads
\* another block header.  A successful call on the blocks of a stream leaves their
\* data, in order, in dst.
C13_BlockSequencing ==
    /\ [][ReadBlockHeader
          => /\ dptr' = dptr /\ dst' = dst
             /\ result' = "" => (sptr' = sptr + 3 /\ pc' = "block")]_vars
    /\ [][BlockEnds
          => IF b_final # 0 THEN pc' = "done" /\ result' = "Ok"
             ELSE pc' = "loop" /\ result' = ""]_vars
    /\ [][pc # "done"]_vars
    /\ [](pc # "done" => result = "")
    /\ []((pc = "done" /\ result = "Ok" /\ given.blocks # <<>>)
          => /\ b_final = 1
             /\ dptr = Len(given.data)
             /\ SubSeq(dst, 1, dptr) = given.data)

\* a stream of three blocks has been decoded, the last one a back-reference that
\* reaches the bytes of the two blocks before it
C13_Witness ==
    /\ pc = "done" /\ result = "Ok" /\ Len(given.blocks) = 3
    /\ dptr = 6 /\ SubSeq(dst, 1, 6) = <<1, 7, 8, 1, 7, 8>>

\* a stream has been decoded up to its final block, with input left after it
C13_WitnessFollowed ==
    /\ pc = "done" /\ result = "Ok" /\ given.blocks \in FollowedStreams
    /\ sptr + 8 <= 8 * Len(src)

----------------------------------------------------------------------------
(* Properties of the code generator (specification SpecCodes)                   *)

\* C14: reverse_bits is an involution on n-bit values.  For every n with
\* 0 < n <= 15 and every x < 2^n, reverse_bits(x, n) < 2^n and
\* reverse_bits(reverse_bits(x, n), n) = x.
C14_ReverseInvolution ==
    pc = "reversed" => (rev < Pow2(count) /\ reverse_bits(rev, count) = word)

\* a value of 15 bits that is not its own mirror image has been reversed
C14_Witness ==
    /\ pc = "reversed" /\ count = MAX_CODE_LENGTH - 1
    /\ word = 1 /\ rev = Pow2(MAX_CODE_LENGTH - 2)

----------------------------------------------------------------------------
(* Properties of the output window (specification Spec)                         *)

\* other initial contents of a dst of n bytes: every byte 255, and bytes that
\* differ from place to place
Contents(n) == {[k \in 1..n |-> 255], [k \in 1..n |-> 100 + k]}

\* C15: window confinement.  inflate reads dst only below the output offset: for
\* every src, the return value and the produced bytes dst[0..n) are the same
\* whatever dst held when the call began, and on success the bytes dst[n..) keep
\* the values they had then.
C15_WindowConfinement ==
    pc = "done"
    => /\ result = "Ok" => \A k \in dptr..(Len(dst) - 1) : at(dst, k) = 0
       /\ \A d0 \in Contents(Len(dst)) :
             LET r == inflate(d0, src, overflow_checks, fixed_luts)
             IN  /\ r.result = result
                 /\ r.dptr = dptr
                 /\ SubSeq(r.dst, 1, dptr) = SubSeq(dst, 1, dptr)
                 /\ result = "Ok" => SubSeq(r.dst, dptr + 1, Len(dst)) = SubSeq(d0, dptr + 1, Len(dst))

\* a stream with a back-reference has been decoded into a dst with room to spare
C15_Witness ==
    /\ pc = "done" /\ result = "Ok" /\ dptr >= 4 /\ dptr < Len(dst)
    /\ \E i \in DOMAIN given.blocks :
          \E j \in DOMAIN given.blocks[i].tokens : given.blocks[i].tokens[j].len > 0

----------------------------------------------------------------------------
(* Termination (specification Spec)                                             *)

\* the variants of Error (src/src/lib.rs)
Error ==
    {"Underflow", "Overflow", "InvalidHeader", "InvalidBitstream", "InvalidBlockType",
     "InvalidBlockLength", "InvalidCodeLength", "InvalidDistance", "InvalidLength",
     "InvalidSymbol", "InvalidData", "UnderSubscribedTree", "OverSubscribedTree"}

\* a number that is 0 when the call has returned and positive while it runs: three
\* times the bits left up to 16 bits past the end of src, plus 2 where the block's
\* type has been read and its body not begun, 1 elsewhere
Rank ==
    IF pc = "done" THEN 0
    ELSE 3 * (8 * Len(src) + 16 - sptr) + (IF pc = "block" THEN 2 ELSE 1)

\* every call returns: while it runs the bit position stays within 15 bits past
\* the end of src and a step can be taken, and every step lowers Rank, so a call
\* takes at most as many steps as its first Rank
Terminates ==
    /\ [](pc # "done" => sptr <= 8 * Len(src) + 15)
    /\ [](pc # "done" => (pc \in {"loop", "lengths", "huffman"} \/ (pc = "block" /\ b_type \in 0..3)))
    /\ [][Rank' < Rank]_vars

\* the bit position never decreases; a block header, a code length and a symbol
\* of a block that are decoded increase it; a step that begins at or beyond the
\* end of src and reads ends with Underflow
BitPositionAdvances ==
    /\ [][sptr' >= sptr]_vars
    /\ [][((ReadBlockHeader \/ CodeLength \/ HuffmanSymbol) /\ result' \in {"", "Ok"})
          => sptr' > sptr]_vars
    /\ [][(sptr >= 8 * Len(src) /\ pc \in {"loop", "lengths", "huffman"})
          => result' = "Underflow"]_vars

\* C16: termination.  For every src and dst, inflate terminates with Ok or Err:
\* every decoded symbol and block header strictly increases the bit position,
\* the bit position never decreases, and a read at or beyond the end of src
\* yields Underflow, so no decode loop is infinite.
C16_Termination ==
    /\ Terminates
    /\ BitPositionAdvances
    /\ [](pc = "done" => result \in {"Ok"} \cup Error)

----------------------------------------------------------------------------
(* Properties of the table lookup (specification SpecTable)                     *)

\* the value of the n bits of s from bit p on, the first one lowest
BitsAt(s, p, n) ==
    LET weights == [k \in 0..(n - 1) |-> BitOf(s, p + k) * Pow2(k)]
        sum[k \in 0..n] == IF k = 0 THEN 0 ELSE sum[k - 1] + weights[k - 1]
    IN  sum[n]

\* s holds, from bit p on, the RFC 1951 code of symbol i (counted from 0) of lens,
\* its first bit first
HoldsCode(s, p, lens, i) ==
    LET c == CanonicalCode(lens, i)
    IN  /\ p + c[2] <= 8 * Len(s)
        /\ \A k \in 1..c[2] : BitOf(s, p + k - 1) = MsbBits(c[1], c[2])[k]

\* C17: two-level lookup decodes the canonical code.  For every vector of Kraft
\* sum 1 that make_lookup_table accepts and every input whose next bits are the
\* code of symbol i, read_symbol returns i and advances the bit position by
\* exactly L[i]: through the primary entry alone when L[i] <= 9, through the
\* primary entry's pointer and one secondary entry when L[i] > 9.
C17_DecodesCanonicalCode ==
    (pc = "symbol" /\ Kraft(inp) = KraftOne)
    => \A i \in {k \in DOMAIN inp : inp[k] # 0} :
          HoldsCode(src, sptr, inp, i - 1)
          => LET first == at(lut.table, BitsAt(src, sptr, FIRSTBITS))
                 rest == BitsAt(src, sptr + FIRSTBITS, first.len - FIRSTBITS)
             IN  /\ sym = [err |-> "", val |-> i - 1, sptr |-> sptr + inp[i]]
                 /\ inp[i] <= FIRSTBITS => first = VarLenCode(i - 1, inp[i])
                 /\ inp[i] > FIRSTBITS
                    => /\ first.len >= inp[i] /\ first.len < UNUSED /\ first.code >= HEADSIZE
                       /\ at(lut.table, first.code + rest) = VarLenCode(i - 1, inp[i])

\* a code of 10 bits has been read from a secondary table that also holds codes
\* of 15 bits
C17_Witness ==
    /\ pc = "symbol" /\ Kraft(inp) = KraftOne /\ sym.err = ""
    /\ HoldsCode(src, sptr, inp, sym.val)
    /\ at(inp, sym.val) = FIRSTBITS + 1 /\ sym.sptr = sptr + FIRSTBITS + 1
    /\ at(lut.table, BitsAt(src, sptr, FIRSTBITS)).len = MAX_CODE_LENGTH - 1

\* the table entry whose code read_symbol(s, p, table) returns: the primary entry
\* under the next 9 bits or, when its len is above 9, the entry under its pointer
\* and the bits that follow
Landing(s, p, table) ==
    LET first == at(table, BitsAt(s, p, FIRSTBITS))
    IN  IF first.len <= FIRSTBITS THEN first
        ELSE at(table, first.code + BitsAt(s, p + FIRSTBITS, first.len - FIRSTBITS))

\* C18: no silent garbage from unfilled entries.  For every table that
\* make_lookup_table returns Ok (that of a tree whose only symbol has a code
\* longer than 9 bits included) and every input, read_symbol never returns the
\* code of an entry left unused (len = 16): a lookup that lands on one, in the
\* primary or in a secondary table, ends with an error.
C18_NoSilentGarbage ==
    (pc = "symbol" /\ sym.err = "") => Landing(src, sptr, lut.table).len # UNUSED

\* the entries of the secondary tables make_lookup_table carves for lens: what
\* its pointer has advanced by, from HEADSIZE, after the allocation loop
Pool(lens) == secondary_size(maxlens_of(lens, generate_codes(lens).code), 0, HEADSIZE - 1)

\* C19: secondary pool bound.  For every vector of at most 288 lengths 0..15,
\* valid, over-subscribed or under-subscribed, the secondary tables take at most
\* 512 entries in all (pointer <= 1024 after the allocation), so no index written
\* by make_lookup_table and no index read by read_symbol reaches 1024.
C19_SecondaryPoolBound ==
    /\ (pc = "table" /\ Len(inp) <= NUM_DEFLATE_CODE_SYMBOLS)
       => /\ HEADSIZE + Pool(inp) <= TABLESIZE
          /\ lut.err = "Panic" => (overflow_checks /\ generate_codes(inp).overflow)
    /\ (pc = "symbol" /\ Len(inp) <= NUM_DEFLATE_CODE_SYMBOLS) => sym.err # "Panic"

\* the table of 288 symbols whose long codes spread over the most prefixes has
\* been made: seven secondary tables, 408 entries
C19_Witness ==
    /\ pc = "table" /\ Len(inp) = NUM_DEFLATE_CODE_SYMBOLS
    /\ Cardinality({inp[k] : k \in DOMAIN inp}) = 6
    /\ Pool(inp) = 408

----------------------------------------------------------------------------
(* Properties of generate_codes (specification SpecCodes)                       *)

\* lens without its zero lengths
Present(lens) == SelectSeq(lens, LAMBDA l : l # 0)

\* the codes of the symbols of a nonzero length, in order
PresentCodes(lens, code) ==
    LET present == SelectSeq([k \in 1..Len(lens) |-> k], LAMBDA k : lens[k] # 0)
    IN  [j \in 1..Len(present) |-> code[present[j]]]

\* C20: canonical code values.  For every vector of lengths 0..15 with Kraft sum
\* <= 1, generate_codes gives each symbol i of a nonzero length the value
\* reverse_bits(c, L[i]), c the RFC 1951 canonical code computed with
\* next[1] = 0 and the symbols of length 0 left out of the counts; the codes do
\* not depend on how many symbols have length 0.
C20_CanonicalCodes ==
    (pc = "codes" /\ Kraft(inp) <= KraftOne)
    => /\ Len(codes.code) = Len(inp)
       /\ \A i \in {k \in DOMAIN inp : inp[k] # 0} :
             codes.code[i] = reverse_bits(CanonicalCode(inp, i - 1)[1], inp[i])
       /\ PresentCodes(inp, codes.code) = generate_codes(Present(inp)).code

\* generate_codes, second loop: no bit is dropped by a shift, every next_code[i]
\* is twice the sum it was computed from
ShiftKeeps(lens) ==
    LET cnt == code_len_count(lens)
        nc == next_code_from(cnt, <<0>>, 1).next_code
    IN  \A i \in 1..(MAX_CODE_LENGTH - 1) : nc[i + 1] = 2 * (nc[i] + cnt[i - 1])

\* C21: 16-bit arithmetic in generate_codes.  For every vector of at most 320
\* code lengths 0..15, with any number of zero lengths, every sum
\* next_code[i-1] + code_len_count[i-1], its left shift by 1 and every
\* next_code[len] + 1 stay below 2^16: no u16 overflow while codes are generated.
C21_NoOverflow ==
    (pc = "codes" /\ Len(inp) <= 320) => (~codes.overflow /\ ShiftKeeps(inp))

----------------------------------------------------------------------------
(* Properties of the PNG unfilter (specification SpecPng)                       *)

\* C22: the first scanline is unfiltered as the general rule unfilters a line
\* whose previous line is all zero.  For every filter type, N in 1..4 and every
\* filtered line, unfilter_scanline_0::<N>(recon, ft, cx) leaves the bytes that
\* unfilter_scanline_n::<N>(recon, zeros, ft, cx) leaves.
C22_FirstScanline ==
    pc = "line_0" => recon = unfilter_scanline_n(N, filtered, Zeros(cx), filter_type, cx)

====
